---- MODULE Spec2Model ----
(***************************************************************************)
(* Asynchronous message pacts (message/v3/asynchronous_message.go).        *)
(*                                                                         *)
(* A Pact owns a native message server; AddAsynchronousMessage asks that   *)
(* server for a new message handle, the builder methods forward to the     *)
(* handle, and Verify reifies the message, optionally narrows the content  *)
(* to the AsType target, runs the consumer handler and, when the handler   *)
(* returned nil, asks the server to write the pact file (overwrite=false). *)
(*                                                                         *)
(* The native message server (internal/native) is not part of the source   *)
(* at hand: ReifyMessage and WritePactFile are modelled after the          *)
(* specification's sections 4.2 and 4.4.                                   *)
(***************************************************************************)
EXTENDS Integers, Sequences, FiniteSets, TLC

----------------------------------------------------------------------------
(* Bounds *)

\* Message handles created over a run (all Pacts together).
MaxMsgs == 2

\* Pact objects (test binaries / NewMessagePact calls) configured with the
\* same consumer, provider and PactDir, so that they share one pact file.
NumPacts == 2

\* Verify calls over a run; nothing is built once they are used up.
MaxVerifies == 2

\* Builder calls over a run of the builder specification.
MaxCalls == 3

\* Provider states given to a message that is verified and changed again.
MaxGiven == 1

Pacts == 1..NumPacts

----------------------------------------------------------------------------
(* Values *)

\* Descriptions a test passes to ExpectsToReceive; "" is the value of a
\* handle on which ExpectsToReceive was never called.
Descriptions == {"", "X"}

\* JSON values of a content example: "str" (a string), "num" (a number), or
\* null (no content set).
JsonNull == "null"

\* Matcher-form content: an example value that is a literal (rule "none"),
\* carries a supported matching rule ("type"), or carries a rule kind the
\* reification engine does not know ("unknown").
NoContent == [rule |-> "none", example |-> JsonNull]
Contents ==
    { [rule |-> "none", example |-> "str"],
      [rule |-> "type", example |-> "num"],
      [rule |-> "unknown", example |-> "str"] }

\* Raw payloads of WithContent / WithBinaryContent: a content type with a
\* body, kept as a literal.
RawContents ==
    { [rule |-> "none", example |-> "raw1"],
      [rule |-> "none", example |-> "raw2"] }

\* Provider states passed to Given: a name with parameters. Two of them
\* share their name.
ProviderStates ==
    { [name |-> "s", params |-> "none"],
      [name |-> "s", params |-> "p"],
      [name |-> "t", params |-> "none"] }

\* Metadata maps passed to WithMetadata; a fresh handle has none.
NoMetadata == [k \in {} |-> ""]
Metadatas ==
    { [k \in {"k1"} |-> "a"],
      [k \in {"k1"} |-> "b"],
      [k \in {"k2"} |-> "c"] }

\* Message.Type: nil (AsType never called), a pointer to a struct whose
\* JSON form is `shape`, or a non-pointer value of such a struct.
NoType == [kind |-> "nil", shape |-> JsonNull]
Types ==
    { [kind |-> "ptr", shape |-> "str"],
      [kind |-> "val", shape |-> "str"] }

\* Errors returned by Verify.
NoError == [kind |-> "nil", cause |-> "nil"]
ErrUnexpectedResponse == [kind |-> "reify", cause |-> "nil"]
ErrNarrow(cause) == [kind |-> "narrow", cause |-> cause]
ErrHandler == [kind |-> "handler", cause |-> "nil"]
ErrPersist == [kind |-> "persist", cause |-> "nil"]

\* Content handed to the handler: the generic decoded JSON value, or a value
\* of the AsType target's type.
Generic(v) == [typed |-> FALSE, val |-> v]
Narrowed(v) == [typed |-> TRUE, val |-> v]
NoArg == [typed |-> FALSE, val |-> "none"]

----------------------------------------------------------------------------
(* State *)

VARIABLES
    messages,   \* the message handles created so far, in creation order
    file,       \* the pact file of the consumer/provider pair
    last,       \* what the Verify call that has just returned did (NoCall
                \* once another operation has run since)
    nVerify,    \* history: number of Verify calls so far
    handledOK,  \* history: interactions whose own handler returned nil
    verifiedOK, \* history: interactions whose Verify returned nil
    pc,         \* concurrent writers: position of each writer
    lock,       \* concurrent writers: holder of the file lock, 0 if free
    local,      \* concurrent writers: the contract each writer has read
    calls,      \* history: the builder calls made on a handle, in call order
    tmp,        \* crashing writers: the new file each writer is writing
    torn        \* crashing writers: the file at the pact path holds only
                \* part of a document

vars == <<messages, file, last, nVerify, handledOK, verifiedOK, pc, lock, local,
          calls, tmp, torn>>

concVars == <<pc, lock, local>>

auxVars == <<calls, tmp, torn>>

\* The interaction record a message handle stands for in the contract.
Interaction(m) ==
    [ description |-> m.description, states |-> m.states,
      metadata |-> m.metadata, content |-> m.content ]

\* The handle messageserver.NewMessage() returns to Pact p.
NewMessage(p) ==
    [ pact |-> p, description |-> "", states |-> <<>>, metadata |-> NoMetadata,
      content |-> NoContent, Type |-> NoType ]

NoFile == [exists |-> FALSE, interactions |-> <<>>]

\* No new file being written.
NoTmp == [state |-> "none", contract |-> NoFile]

\* The observation of a Verify call: the message and Pact it ran on, the
\* interaction, Type, file and in-memory contract as they were when it was
\* called, whether the interaction had been verified successfully before,
\* and what the call did and returned.
NoCall ==
    [ called |-> FALSE, msg |-> 0, pact |-> 0,
      interaction |-> Interaction(NewMessage(0)),
      TypeBefore |-> NoType, fileBefore |-> NoFile, contractBefore |-> <<>>,
      repeated |-> FALSE,
      rawErr |-> NoError, err |-> NoError, trace |-> <<>>, handlerArg |-> NoArg,
      handlerResult |-> "none", writeResult |-> "none", tErrorf |-> FALSE ]

----------------------------------------------------------------------------
(* Sequences *)

SeqContains(s, x) == \E k \in 1..Len(s) : s[k] = x

Count(s, x) == Cardinality({k \in 1..Len(s) : s[k] = x})

IsPrefix(s, t) == Len(s) <= Len(t) /\ \A k \in 1..Len(s) : s[k] = t[k]

----------------------------------------------------------------------------
(* The native message server of a Pact *)

\* The interactions the server of Pact p holds: one per handle it created
\* (Pact.AddAsynchronousMessage -> messageserver.NewMessage), in creation
\* order, each as its handle stands now.
RECURSIVE ServerFrom(_, _)
ServerFrom(p, k) ==
    IF k > Len(messages) THEN <<>>
    ELSE IF messages[k].pact = p
         THEN <<Interaction(messages[k])>> \o ServerFrom(p, k + 1)
         ELSE ServerFrom(p, k + 1)

ServerInteractions(p) == ServerFrom(p, 1)

\* Contract Store merge: interactions not already present (structural
\* equality) are appended, existing ones are left untouched.
RECURSIVE Merge(_, _)
Merge(existing, new) ==
    IF new = <<>> THEN existing
    ELSE IF SeqContains(existing, Head(new))
         THEN Merge(existing, Tail(new))
         ELSE Merge(Append(existing, Head(new)), Tail(new))

\* A merge that appends without looking for the interaction in the file.
MergedFileKeepingDuplicates(onDisk, p, overwrite) ==
    [ exists |-> TRUE,
      interactions |->
          IF overwrite \/ ~onDisk.exists
          THEN ServerInteractions(p)
          ELSE onDisk.interactions \o ServerInteractions(p) ]

\* messageserver.WritePactFile(dir, overwrite) seen from a contract `onDisk`:
\* the file the write leaves when it succeeds.
MergedFile(onDisk, p, overwrite) ==
    [ exists |-> TRUE,
      interactions |->
          IF overwrite \/ ~onDisk.exists
          THEN Merge(<<>>, ServerInteractions(p))
          ELSE Merge(onDisk.interactions, ServerInteractions(p)) ]

\* A write that fails (permissions, disk full) leaves the file as it was:
\* write-new-then-replace.
WritePactFile(p, overwrite, writeOk) ==
    [ ok |-> writeOk,
      file |-> IF writeOk THEN MergedFile(file, p, overwrite) ELSE file ]

\* messageHandle.ReifyMessage(): the message in its example form as JSON
\* text; a rule kind the engine does not know yields no usable JSON.
ReifyContent(c) == c.example

ReifyMessage(m) ==
    [ valid |-> m.content.rule # "unknown",
      description |-> m.description,
      content |-> ReifyContent(m.content) ]

----------------------------------------------------------------------------
(* Pact.verifyMessageConsumerRaw *)

\* json.Unmarshal([]byte(body), &m)
JsonUnmarshalIgnoringError(body) ==
    [ err |-> FALSE,
      Description |-> body.description,
      Content |-> body.content ]

JsonUnmarshalDroppingContent(body) ==
    [ err |-> ~body.valid,
      Description |-> body.description,
      Content |-> JsonNull ]

JsonUnmarshalMessage(body) ==
    [ err |-> ~body.valid,
      Description |-> body.description,
      Content |-> body.content ]

\* json.Unmarshal(s, &messageToVerify.Type) with s the JSON of content v.
\* The destination is the interface field itself: encoding/json decodes
\* into what the interface holds only when that is a non-nil pointer (and
\* the JSON is not null); otherwise it stores the generic decoded value in
\* the interface, and null stores nil.
JsonUnmarshalInto(t, v) ==
    IF v = JsonNull
    THEN [err |-> "nil", value |-> Generic(JsonNull), target |-> NoType]
    ELSE IF t.kind = "ptr"
         THEN IF v = t.shape
              THEN [err |-> "nil", value |-> Narrowed(v), target |-> t]
              ELSE [err |-> "decode", value |-> NoArg, target |-> t]
         ELSE [err |-> "nil", value |-> Generic(v), target |-> t]

\* t := reflect.TypeOf(messageToVerify.Type); t != nil && t.Name() != "interface"
NarrowingRequested(t) == t.kind # "nil"

\* Step 2: the content for the handler, the error, and the value Type holds
\* afterwards (m.Content = messageToVerify.Type).
NarrowType(t, v) ==
    IF ~NarrowingRequested(t)
    THEN [err |-> NoError, narrowed |-> FALSE, content |-> Generic(v), Type |-> t]
    ELSE LET d == JsonUnmarshalInto(t, v)
         IN  IF d.err # "nil"
             THEN [err |-> ErrNarrow(d.err), narrowed |-> TRUE, content |-> NoArg, Type |-> d.target]
             ELSE [err |-> NoError, narrowed |-> TRUE, content |-> d.value, Type |-> d.target]

\* if err != nil { return err } after the handler
HandlerErrorIgnored(handlerOk) == FALSE

HandlerFailed(handlerOk) == ~handlerOk

\* return p.messageserver.WritePactFile(p.config.PactDir, false)
WriteOverwriting == TRUE

WriteOverwrite == FALSE

WriteFromVerify(p, writeOk) == WritePactFile(p, WriteOverwrite, writeOk)

WriteErrorSwallowed(w) == NoError

WriteReturn(w) == IF w.ok THEN NoError ELSE ErrPersist

\* What the handler and the write returned, as the observation records it.
HandlerResult(handlerOk) == IF handlerOk THEN "ok" ELSE "error"
WriteResult(w) == IF w.ok THEN "ok" ELSE "error"

\* A call's outcome: the error returned, the steps taken in order, what the
\* handler was given and returned, what the write returned, and the values
\* of Message.Type and of the file when the call returns.
Outcome(err, trace, arg, hres, wres, t, f) ==
    [ err |-> err, trace |-> trace, handlerArg |-> arg, handlerResult |-> hres,
      writeResult |-> wres, Type |-> t, file |-> f ]

\* Steps 3 and 4, in the wrong order: write, then run the handler.
InvokeHandlerAfterWrite(p, trace, arg, t, handlerOk, writeOk) ==
    LET w == WriteFromVerify(p, writeOk)
    IN  Outcome(IF HandlerFailed(handlerOk) THEN ErrHandler ELSE WriteReturn(w),
                trace \o <<"write", "handler">>, arg, HandlerResult(handlerOk),
                WriteResult(w), t, w.file)

\* Steps 3 and 4: err = handler(m); return err if not nil; write the file.
InvokeHandler(p, trace, arg, t, handlerOk, writeOk) ==
    IF HandlerFailed(handlerOk)
    THEN Outcome(ErrHandler, Append(trace, "handler"), arg, HandlerResult(handlerOk),
                 "none", t, file)
    ELSE LET w == WriteFromVerify(p, writeOk)
         IN  Outcome(WriteReturn(w), trace \o <<"handler", "write">>, arg,
                     HandlerResult(handlerOk), WriteResult(w), t, w.file)

\* Steps 1 and 2: reify, parse, narrow.
ReifyAndNarrow(p, m, handlerOk, writeOk) ==
    LET am == JsonUnmarshalMessage(ReifyMessage(m))
    IN  IF am.err
        THEN Outcome(ErrUnexpectedResponse, <<"reify">>, NoArg, "none", "none", m.Type, file)
        ELSE LET n == NarrowType(m.Type, am.Content)
                 trace == IF n.narrowed THEN <<"reify", "narrow">> ELSE <<"reify">>
             IN  IF n.err # NoError
                 THEN Outcome(n.err, trace, NoArg, "none", "none", n.Type, file)
                 ELSE InvokeHandler(p, trace, n.content, n.Type, handlerOk, writeOk)

\* A verification that first rejects an empty description.
verifyValidatingDescription(p, m, handlerOk, writeOk) ==
    IF m.description = ""
    THEN Outcome([kind |-> "invalid", cause |-> "nil"], <<>>, NoArg, "none", "none", m.Type, file)
    ELSE ReifyAndNarrow(p, m, handlerOk, writeOk)

verifyMessageConsumerRaw(p, m, handlerOk, writeOk) ==
    ReifyAndNarrow(p, m, handlerOk, writeOk)

\* Pact.Verify: err := p.verifyMessageConsumerRaw(message, handler);
\* t.Errorf if err != nil; return err.
VerifySwallowingError(err) == [err |-> NoError, tErrorf |-> err # NoError]

VerifyReturn(err) == [err |-> err, tErrorf |-> err # NoError]

----------------------------------------------------------------------------
(* The builder methods of Message *)

\* The native handle's setters (messageHandle.GivenWithParameter,
\* ExpectsToReceive, WithMetadata, WithContents, WithJSONContents): a state
\* is appended; description, metadata and content are replaced.
HandleGivenWithParameter(m, name, params) ==
    [m EXCEPT !.states = Append(@, [name |-> name, params |-> params])]

HandleExpectsToReceive(m, description) == [m EXCEPT !.description = description]

HandleWithMetadata(m, metadata) == [m EXCEPT !.metadata = metadata]

HandleWithContents(m, content) == [m EXCEPT !.content = content]

HandleWithJSONContents(m, content) == [m EXCEPT !.content = content]

\* Message.Given: m.messageHandle.GivenWithParameter(state.Name, state.Parameters)
MsgGivenNameOnly(m, state) == HandleGivenWithParameter(m, state.name, "none")

MsgGiven(m, state) == HandleGivenWithParameter(m, state.name, state.params)

\* Message.ExpectsToReceive
MsgExpectsToReceive(m, description) == HandleExpectsToReceive(m, description)

\* Message.WithMetadata
MsgWithMetadataMerging(m, metadata) ==
    HandleWithMetadata(m, metadata @@ m.metadata)

MsgWithMetadata(m, metadata) == HandleWithMetadata(m, metadata)

\* Message.WithBinaryContent and Message.WithContent: both forward to
\* messageHandle.WithContents(contentType, body).
MsgWithBinaryContent(m, content) == HandleWithContents(m, content)

MsgWithContent(m, content) == HandleWithContents(m, content)

\* Message.WithJSONContent
MsgWithJSONContent(m, content) == HandleWithJSONContents(m, content)

\* Message.AsType: m.Type = t
MsgAsType(m, t) == [m EXCEPT !.Type = t]

----------------------------------------------------------------------------
(* Operations *)

Handles == 1..Len(messages)

\* NewMessagePact for every Pact; no handle yet, no pact file yet.
Init ==
    /\ messages = <<>>
    /\ file = NoFile
    /\ last = NoCall
    /\ nVerify = 0
    /\ handledOK = {}
    /\ verifiedOK = {}
    /\ pc = [p \in Pacts |-> "idle"]
    /\ lock = 0
    /\ local = [p \in Pacts |-> NoFile]
    /\ calls = <<>>
    /\ tmp = [p \in Pacts |-> NoTmp]
    /\ torn = FALSE

\* Pact.AddAsynchronousMessage (and the deprecated AddMessage): the server
\* of p creates the handle, so the handle belongs to p's contract from now on.
AddAsynchronousMessage(p) ==
    /\ Len(messages) < MaxMsgs
    /\ nVerify < MaxVerifies
    /\ messages' = Append(messages, NewMessage(p))
    /\ last' = NoCall
    /\ UNCHANGED <<file, nVerify, handledOK, verifiedOK, concVars, auxVars>>

\* Message.ExpectsToReceive
ExpectsToReceive(i, description) ==
    /\ nVerify < MaxVerifies
    /\ messages' = [messages EXCEPT ![i] = MsgExpectsToReceive(@, description)]
    /\ last' = NoCall
    /\ UNCHANGED <<file, nVerify, handledOK, verifiedOK, concVars, auxVars>>

\* Message.WithJSONContent
WithJSONContent(i, content) ==
    /\ nVerify < MaxVerifies
    /\ messages' = [messages EXCEPT ![i] = MsgWithJSONContent(@, content)]
    /\ last' = NoCall
    /\ UNCHANGED <<file, nVerify, handledOK, verifiedOK, concVars, auxVars>>

\* Message.AsType
AsType(i, t) ==
    /\ nVerify < MaxVerifies
    /\ messages' = [messages EXCEPT ![i] = MsgAsType(@, t)]
    /\ last' = NoCall
    /\ UNCHANGED <<file, nVerify, handledOK, verifiedOK, concVars, auxVars>>

\* Pact.Verify(t, message, handler), reached through Message.Verify:
\* m.messagePactV3.Verify(t, m, m.handler). handlerOk is what the handler
\* does with the message, writeOk whether the file system lets the write
\* succeed.
Verify(i, handlerOk, writeOk) ==
    LET m == messages[i]
        r == verifyMessageConsumerRaw(m.pact, m, handlerOk, writeOk)
    IN  /\ nVerify < MaxVerifies
        /\ nVerify' = nVerify + 1
        /\ messages' = [messages EXCEPT ![i].Type = r.Type]
        /\ file' = r.file
        /\ last' = [ called |-> TRUE, msg |-> i, pact |-> m.pact,
                     interaction |-> Interaction(m),
                     TypeBefore |-> m.Type, fileBefore |-> file,
                     contractBefore |-> ServerInteractions(m.pact),
                     repeated |-> Interaction(m) \in verifiedOK,
                     rawErr |-> r.err, err |-> VerifyReturn(r.err).err,
                     trace |-> r.trace, handlerArg |-> r.handlerArg,
                     handlerResult |-> r.handlerResult, writeResult |-> r.writeResult,
                     tErrorf |-> VerifyReturn(r.err).tErrorf ]
        /\ handledOK' = IF r.handlerResult = "ok"
                        THEN handledOK \cup {Interaction(m)} ELSE handledOK
        /\ verifiedOK' = IF VerifyReturn(r.err).err = NoError
                         THEN verifiedOK \cup {Interaction(m)} ELSE verifiedOK
        /\ UNCHANGED <<concVars, auxVars>>

Next ==
    \/ \E p \in Pacts : AddAsynchronousMessage(p)
    \/ \E i \in Handles, d \in Descriptions : ExpectsToReceive(i, d)
    \/ \E i \in Handles, c \in Contents : WithJSONContent(i, c)
    \/ \E i \in Handles, t \in Types \cup {NoType} : AsType(i, t)
    \/ \E i \in Handles, handlerOk \in BOOLEAN, writeOk \in BOOLEAN :
           Verify(i, handlerOk, writeOk)

Spec == Init /\ [][Next]_vars

----------------------------------------------------------------------------
(* Concurrent verifications *)

\* NumPacts Verify calls run at the same time, call w on message w, each
\* message created by any of the Pacts (parallel test cases of one Pact, or
\* separate test binaries on one PactDir). Each call runs reification,
\* narrowing and the handler on its own, and then writes the shared file: the store takes the lock of the file path,
\* reads the file, merges its own interactions in, replaces the file and
\* releases the lock.

ConcDescriptions == {"X", "Y"}
ConcContents == {NoContent} \cup {c \in Contents : c.rule # "unknown"}

ConcInit ==
    /\ messages \in [Pacts -> [pact : Pacts, description : ConcDescriptions,
                               states : {<<>>}, metadata : {NoMetadata},
                               content : ConcContents, Type : {NoType}]]
    /\ \A p, q \in Pacts :
           p # q => Interaction(messages[p]) # Interaction(messages[q])
    /\ file = NoFile
    /\ last = NoCall
    /\ nVerify = 0
    /\ handledOK = {}
    /\ verifiedOK = {}
    /\ pc = [p \in Pacts |-> "start"]
    /\ lock = 0
    /\ local = [p \in Pacts |-> NoFile]
    /\ calls = <<>>
    /\ tmp = [p \in Pacts |-> NoTmp]
    /\ torn = FALSE

\* Lines 163-202: everything before the write. The call ends here with an
\* error unless the handler returned nil.
CRunHandler(p, handlerOk) ==
    /\ pc[p] = "start"
    /\ LET r == verifyMessageConsumerRaw(messages[p].pact, messages[p], handlerOk, TRUE)
       IN  /\ pc' = [pc EXCEPT ![p] = IF r.writeResult = "none" THEN "failed" ELSE "acquire"]
           /\ handledOK' = IF r.handlerResult = "ok"
                           THEN handledOK \cup {Interaction(messages[p])}
                           ELSE handledOK
    /\ UNCHANGED <<messages, file, last, nVerify, verifiedOK, lock, local, auxVars>>

\* A store that does not wait for the lock.
CAcquireWithoutWaiting(p) ==
    /\ pc[p] = "acquire"
    /\ lock' = p
    /\ pc' = [pc EXCEPT ![p] = "read"]
    /\ UNCHANGED <<messages, file, last, nVerify, handledOK, verifiedOK, local, auxVars>>

\* WritePactFile: take the lock of the file path.
CAcquire(p) ==
    /\ pc[p] = "acquire"
    /\ lock = 0
    /\ lock' = p
    /\ pc' = [pc EXCEPT ![p] = "read"]
    /\ UNCHANGED <<messages, file, last, nVerify, handledOK, verifiedOK, local, auxVars>>

\* WritePactFile: read the file as it is on disk.
CRead(p) ==
    /\ pc[p] = "read"
    /\ local' = [local EXCEPT ![p] = file]
    /\ pc' = [pc EXCEPT ![p] = "store"]
    /\ UNCHANGED <<messages, file, last, nVerify, handledOK, verifiedOK, lock, auxVars>>

\* WritePactFile: merge and replace the file, or fail and leave it.
CStore(p, writeOk) ==
    /\ pc[p] = "store"
    /\ file' = IF writeOk
               THEN MergedFile(local[p], messages[p].pact, WriteOverwrite)
               ELSE file
    /\ pc' = [pc EXCEPT ![p] = IF writeOk THEN "release" ELSE "releaseFailed"]
    /\ UNCHANGED <<messages, last, nVerify, handledOK, verifiedOK, lock, local, auxVars>>

\* WritePactFile: release the lock and return.
CRelease(p) ==
    /\ pc[p] \in {"release", "releaseFailed"}
    /\ lock' = IF lock = p THEN 0 ELSE lock
    /\ pc' = [pc EXCEPT ![p] = IF pc[p] = "release" THEN "done" ELSE "failed"]
    /\ verifiedOK' = IF pc[p] = "release"
                     THEN verifiedOK \cup {Interaction(messages[p])}
                     ELSE verifiedOK
    /\ UNCHANGED <<messages, file, last, nVerify, handledOK, local, auxVars>>

ConcNext ==
    \/ \E p \in Pacts, handlerOk \in BOOLEAN : CRunHandler(p, handlerOk)
    \/ \E p \in Pacts : CAcquire(p)
    \/ \E p \in Pacts : CRead(p)
    \/ \E p \in Pacts, writeOk \in BOOLEAN : CStore(p, writeOk)
    \/ \E p \in Pacts : CRelease(p)

SpecConc == ConcInit /\ [][ConcNext]_vars

----------------------------------------------------------------------------
(* A write that can be interrupted *)

\* The store of WritePactFile taken apart: the merged contract is written
\* record by record into a new file beside the contract, the new file is
\* closed, and it then replaces the contract in one step. The process of a
\* call can stop at any point between taking the lock and returning; its
\* lock is then released and its new file stays behind.

\* The contract a writer is about to put in place.
NewContract(p) == MergedFile(local[p], messages[p].pact, WriteOverwrite)

\* A store that writes the next record into the contract file itself.
CWriteInPlace(p, writeOk) ==
    /\ pc[p] = "store"
    /\ Len(tmp[p].contract.interactions) < Len(NewContract(p).interactions)
    /\ IF writeOk
       THEN /\ tmp' = [tmp EXCEPT ![p] =
                         [ state |-> "partial",
                           contract |->
                               [ exists |-> TRUE,
                                 interactions |->
                                     Append(tmp[p].contract.interactions,
                                            NewContract(p).interactions[
                                                Len(tmp[p].contract.interactions) + 1]) ] ]]
            /\ file' = tmp'[p].contract
            /\ torn' = TRUE
            /\ UNCHANGED pc
       ELSE /\ tmp' = [tmp EXCEPT ![p] = NoTmp]
            /\ pc' = [pc EXCEPT ![p] = "releaseFailed"]
            /\ UNCHANGED <<file, torn>>
    /\ UNCHANGED <<messages, last, nVerify, handledOK, verifiedOK, lock, local, calls>>

\* WritePactFile: write the next record of the merged contract into the new
\* file, or fail, remove the new file and leave the contract as it is.
CWriteNew(p, writeOk) ==
    /\ pc[p] = "store"
    /\ Len(tmp[p].contract.interactions) < Len(NewContract(p).interactions)
    /\ IF writeOk
       THEN /\ tmp' = [tmp EXCEPT ![p] =
                         [ state |-> "partial",
                           contract |->
                               [ exists |-> TRUE,
                                 interactions |->
                                     Append(tmp[p].contract.interactions,
                                            NewContract(p).interactions[
                                                Len(tmp[p].contract.interactions) + 1]) ] ]]
            /\ UNCHANGED pc
       ELSE /\ tmp' = [tmp EXCEPT ![p] = NoTmp]
            /\ pc' = [pc EXCEPT ![p] = "releaseFailed"]
    /\ UNCHANGED <<messages, file, last, nVerify, handledOK, verifiedOK, lock, local,
                   calls, torn>>

\* WritePactFile: every record is in the new file; close it.
CCloseNew(p) ==
    /\ pc[p] = "store"
    /\ tmp[p].contract.interactions = NewContract(p).interactions
    /\ tmp' = [tmp EXCEPT ![p] = [state |-> "complete", contract |-> tmp[p].contract]]
    /\ pc' = [pc EXCEPT ![p] = "replace"]
    /\ UNCHANGED <<messages, file, last, nVerify, handledOK, verifiedOK, lock, local,
                   calls, torn>>

\* WritePactFile: the new file takes the place of the contract in one step.
CReplace(p) ==
    /\ pc[p] = "replace"
    /\ file' = tmp[p].contract
    /\ torn' = (tmp[p].state # "complete")
    /\ tmp' = [tmp EXCEPT ![p] = NoTmp]
    /\ pc' = [pc EXCEPT ![p] = "release"]
    /\ UNCHANGED <<messages, last, nVerify, handledOK, verifiedOK, lock, local, calls>>

\* The process of a call stops somewhere between asking for the lock and
\* returning from WritePactFile. Its lock goes with it; what it had written
\* stays on disk.
Crash(p) ==
    /\ pc[p] \in {"acquire", "read", "store", "replace", "release", "releaseFailed"}
    /\ pc' = [pc EXCEPT ![p] = "crashed"]
    /\ lock' = IF lock = p THEN 0 ELSE lock
    /\ UNCHANGED <<messages, file, last, nVerify, handledOK, verifiedOK, local, auxVars>>

CrashNext ==
    \/ \E p \in Pacts, handlerOk \in BOOLEAN : CRunHandler(p, handlerOk)
    \/ \E p \in Pacts : CAcquire(p)
    \/ \E p \in Pacts : CRead(p)
    \/ \E p \in Pacts, writeOk \in BOOLEAN : CWriteNew(p, writeOk)
    \/ \E p \in Pacts : CCloseNew(p)
    \/ \E p \in Pacts : CReplace(p)
    \/ \E p \in Pacts : CRelease(p)
    \/ \E p \in Pacts : Crash(p)

SpecCrash == ConcInit /\ [][CrashNext]_vars

----------------------------------------------------------------------------
(* Building one message *)

\* A handle that Pact 1 has just created is configured by at most MaxCalls
\* builder calls; `calls` keeps each call, in order.

BuildDescriptions == {"", "X", "Y"}

BuildInit ==
    /\ messages = <<NewMessage(1)>>
    /\ file = NoFile
    /\ last = NoCall
    /\ nVerify = 0
    /\ handledOK = {}
    /\ verifiedOK = {}
    /\ pc = [p \in Pacts |-> "idle"]
    /\ lock = 0
    /\ local = [p \in Pacts |-> NoFile]
    /\ calls = <<>>
    /\ tmp = [p \in Pacts |-> NoTmp]
    /\ torn = FALSE

\* A builder call: the handle becomes m and the call is kept.
Built(m, op, arg) ==
    /\ Len(calls) < MaxCalls
    /\ messages' = [messages EXCEPT ![1] = m]
    /\ calls' = Append(calls, [op |-> op, arg |-> arg])
    /\ UNCHANGED <<file, last, nVerify, handledOK, verifiedOK, concVars, tmp, torn>>

BGiven(state) == Built(MsgGiven(messages[1], state), "Given", state)

BExpectsToReceive(description) ==
    Built(MsgExpectsToReceive(messages[1], description), "ExpectsToReceive", description)

BWithMetadata(metadata) ==
    Built(MsgWithMetadata(messages[1], metadata), "WithMetadata", metadata)

BWithBinaryContent(content) ==
    Built(MsgWithBinaryContent(messages[1], content), "WithBinaryContent", content)

BWithContent(content) ==
    Built(MsgWithContent(messages[1], content), "WithContent", content)

BWithJSONContent(content) ==
    Built(MsgWithJSONContent(messages[1], content), "WithJSONContent", content)

BuildNext ==
    \/ \E state \in ProviderStates : BGiven(state)
    \/ \E d \in BuildDescriptions : BExpectsToReceive(d)
    \/ \E md \in Metadatas : BWithMetadata(md)
    \/ \E c \in RawContents : BWithBinaryContent(c)
    \/ \E c \in RawContents : BWithContent(c)
    \/ \E c \in Contents : BWithJSONContent(c)

SpecBuild == BuildInit /\ [][BuildNext]_vars

----------------------------------------------------------------------------
(* Changing a message between verifications *)

\* The one handle of Pact 1 is built, verified, changed by any builder
\* method and verified again. The handle is the server's interaction, so a
\* change of the handle changes what the next write merges in.

MutStates == {[name |-> "s", params |-> "none"]}
MutMetadatas == {[k \in {"k1"} |-> "a"]}
MutContents == {[rule |-> "type", example |-> "num"]}
MutRawContents == {[rule |-> "none", example |-> "raw1"]}

\* A builder call outside the builder specification: the handle becomes m.
Rebuilt(i, m) ==
    /\ nVerify < MaxVerifies
    /\ messages' = [messages EXCEPT ![i] = m]
    /\ last' = NoCall
    /\ UNCHANGED <<file, nVerify, handledOK, verifiedOK, concVars, auxVars>>

\* Message.Given
Given(i, state) ==
    /\ Len(messages[i].states) < MaxGiven
    /\ Rebuilt(i, MsgGiven(messages[i], state))

\* Message.WithMetadata
WithMetadata(i, metadata) == Rebuilt(i, MsgWithMetadata(messages[i], metadata))

\* Message.WithBinaryContent
WithBinaryContent(i, content) == Rebuilt(i, MsgWithBinaryContent(messages[i], content))

\* Message.WithContent
WithContent(i, content) == Rebuilt(i, MsgWithContent(messages[i], content))

MutNext ==
    \/ \E state \in MutStates : Given(1, state)
    \/ \E d \in Descriptions : ExpectsToReceive(1, d)
    \/ \E md \in MutMetadatas : WithMetadata(1, md)
    \/ \E c \in MutRawContents : WithBinaryContent(1, c)
    \/ \E c \in MutRawContents : WithContent(1, c)
    \/ \E c \in MutContents : WithJSONContent(1, c)
    \/ \E handlerOk \in BOOLEAN, writeOk \in BOOLEAN : Verify(1, handlerOk, writeOk)

SpecMutate == BuildInit /\ [][MutNext]_vars

----------------------------------------------------------------------------
(* Claims *)

\* The reified content c can be decoded into a target of JSON form `shape`.
Decodable(c, t) == ReifyContent(c) \in {JsonNull, t.shape}

\* Some interaction of the calling Pact's server is not in the file: a write
\* in this call would have changed the file.
WriteWouldChangeFile ==
    \E k \in 1..Len(last.contractBefore) :
        ~SeqContains(last.fileBefore.interactions, last.contractBefore[k])

C2_HandlerFailureBlocksPersistence ==
    (last.called /\ last.handlerResult = "error") =>
        /\ last.writeResult = "none"
        /\ file = last.fileBefore
        /\ last.err # NoError

\* C2 witness: the handler failed in a call whose write would have changed
\* an existing file.
C2_Witness ==
    /\ last.called
    /\ last.handlerResult = "error"
    /\ last.fileBefore.exists
    /\ WriteWouldChangeFile

\* C3: the contract file contains only interactions whose own handler
\* returned success.
C3_OnlyHandledInteractionsInFile ==
    \A k \in 1..Len(file.interactions) : file.interactions[k] \in handledOK

\* C4: Verify returns nil if and only if the handler returned nil and the
\* write that follows it succeeded; a failed write after a successful
\* handler is returned as a persistence error.
C4_SuccessIffHandlerAndWrite ==
    last.called =>
        /\ (last.err = NoError) <=>
               (last.handlerResult = "ok" /\ last.writeResult = "ok")
        /\ (last.handlerResult = "ok" /\ last.writeResult = "error") =>
               last.err = ErrPersist

\* C4 witness: the handler succeeded and the write failed.
C4_Witness ==
    /\ last.called
    /\ last.handlerResult = "ok"
    /\ last.writeResult = "error"

\* C5: after a Verify call that returns an error the in-memory contract and
\* the contract file are as they were before the call; after a call that
\* returns nil both contain the interaction.
C5_AllOrNothing ==
    last.called =>
        /\ last.err # NoError =>
               /\ file = last.fileBefore
               /\ ServerInteractions(last.pact) = last.contractBefore
        /\ last.err = NoError =>
               /\ SeqContains(file.interactions, last.interaction)
               /\ SeqContains(ServerInteractions(last.pact), last.interaction)

\* C5 witness: a call failed after its handler had run, with an existing
\* file that a write would have changed.
C5_Witness ==
    /\ last.called
    /\ last.err = ErrHandler
    /\ last.fileBefore.exists
    /\ WriteWouldChangeFile

\* C6: when a target type was set with AsType and the reified content
\* cannot be decoded into it, Verify fails with a type-narrowing error that
\* carries the decode error, the handler is not invoked and the file is not
\* written.
C6_UndecodableContentRejected ==
    ( /\ last.called
      /\ last.TypeBefore.kind # "nil"
      /\ last.interaction.content.rule # "unknown"
      /\ ~Decodable(last.interaction.content, last.TypeBefore) ) =>
        /\ last.err = ErrNarrow("decode")
        /\ last.handlerResult = "none"
        /\ last.writeResult = "none"

\* C7: the handler is given the narrowed value of the AsType target when a
\* target type was set and narrowing succeeded, and the generic reified
\* content when AsType was never called. (Content null, which decodes to nil
\* whatever the target, is left out.)
C7_HandlerContent ==
    ( /\ last.called
      /\ last.handlerResult # "none"
      /\ ReifyContent(last.interaction.content) # JsonNull ) =>
        IF last.TypeBefore.kind = "nil"
        THEN last.handlerArg = Generic(ReifyContent(last.interaction.content))
        ELSE last.handlerArg = Narrowed(ReifyContent(last.interaction.content))

\* C8: a successful Verify of an interaction that was already verified
\* successfully before leaves exactly one copy of it in the contract file.
C8_MergeIdempotence ==
    (last.called /\ last.err = NoError /\ last.repeated) =>
        Count(file.interactions, last.interaction) = 1

\* C8 witness: the same interaction was verified successfully a second
\* time, and was in the file before that second write.
C8_Witness ==
    /\ last.called
    /\ last.err = NoError
    /\ last.repeated
    /\ SeqContains(last.fileBefore.interactions, last.interaction)
    /\ SeqContains(file.interactions, last.interaction)

\* C9: a successful write (overwrite=false) into an existing file keeps
\* every interaction the file held, in place, and adds the verified one.
C9_MergeAdditivity ==
    (last.called /\ last.err = NoError /\ last.fileBefore.exists) =>
        /\ IsPrefix(last.fileBefore.interactions, file.interactions)
        /\ SeqContains(file.interactions, last.interaction)

\* C9 witness: the file held an interaction A that the writing Pact does
\* not hold, the Pact wrote a new interaction B, and the file holds both.
C9_Witness ==
    /\ last.called
    /\ last.err = NoError
    /\ ~SeqContains(last.fileBefore.interactions, last.interaction)
    /\ \E k \in 1..Len(last.fileBefore.interactions) :
           /\ ~SeqContains(ServerInteractions(last.pact), last.fileBefore.interactions[k])
           /\ file.interactions[k] = last.fileBefore.interactions[k]
    /\ SeqContains(file.interactions, last.interaction)

\* C10: when concurrent verifications that persist distinct interactions to
\* the same, initially absent, contract file have all returned, the file
\* contains the interaction of every call that returned nil exactly once,
\* whatever the interleaving of their read-merge-write steps.
C10_NoLostUpdate ==
    (\A p \in Pacts : pc[p] \in {"done", "failed"}) =>
        \A p \in Pacts :
            pc[p] = "done" =>
                Count(file.interactions, Interaction(messages[p])) = 1

\* C10 witness: two concurrent verifications of distinct interactions, run
\* by different Pacts, both returned nil, and the second one read a file
\* that the first had written.
C10_Witness ==
    /\ \A p \in Pacts : pc[p] \in {"done", "failed"}
    /\ \E p, q \in Pacts :
           /\ messages[p].pact # messages[q].pact
           /\ pc[p] = "done" /\ pc[q] = "done"
           /\ local[q].exists
           /\ SeqContains(file.interactions, Interaction(messages[p]))
           /\ SeqContains(file.interactions, Interaction(messages[q]))

\* The arguments of the calls of `cs` whose method is in `ops`, in call order.
RECURSIVE ArgsOf(_, _)
ArgsOf(cs, ops) ==
    IF cs = <<>> THEN <<>>
    ELSE IF Head(cs).op \in ops
         THEN <<Head(cs).arg>> \o ArgsOf(Tail(cs), ops)
         ELSE ArgsOf(Tail(cs), ops)

\* The argument of the last call of `cs` whose method is in `ops`.
LastArg(cs, ops, default) ==
    LET args == ArgsOf(cs, ops)
    IN  IF args = <<>> THEN default ELSE args[Len(args)]

ContentSetters == {"WithContent", "WithJSONContent", "WithBinaryContent"}

\* C14: after any sequence of builder calls the provider-state list of the
\* interaction is the sequence of states passed to Given, in call order,
\* states of equal name all kept.
C14_GivenAppends ==
    messages[1].states = ArgsOf(calls, {"Given"})

\* C14 witness: two states of the same name were given, another builder call
\* between them, and both are in the list, in call order.
C14_Witness ==
    /\ Len(calls) = 3
    /\ calls[1].op = "Given" /\ calls[2].op # "Given" /\ calls[3].op = "Given"
    /\ calls[1].arg.name = calls[3].arg.name
    /\ calls[1].arg # calls[3].arg
    /\ messages[1].states = <<calls[1].arg, calls[3].arg>>

\* C15: after any sequence of builder calls the description is that of the
\* last ExpectsToReceive, the metadata exactly the map of the last
\* WithMetadata, and the content that of the last WithContent /
\* WithJSONContent / WithBinaryContent; a field no call has set is as
\* NewMessage left it.
C15_LastWriteWins ==
    /\ messages[1].description = LastArg(calls, {"ExpectsToReceive"}, "")
    /\ messages[1].metadata = LastArg(calls, {"WithMetadata"}, NoMetadata)
    /\ messages[1].content = LastArg(calls, ContentSetters, NoContent)

\* C15 witness: two WithMetadata calls with maps of different keys, then a
\* setter of another field; the metadata is the second map alone.
C15_Witness ==
    /\ Len(calls) = 3
    /\ calls[1].op = "WithMetadata" /\ calls[2].op = "WithMetadata"
    /\ DOMAIN calls[1].arg # DOMAIN calls[2].arg
    /\ calls[3].op \in ContentSetters
    /\ messages[1].metadata = calls[2].arg

\* C11: every interaction that a Verify returning nil has written stays in
\* the contract file as it was written, whatever builder calls and writes
\* follow on the same Message.
C11_WrittenRecordKept ==
    \A r \in verifiedOK : SeqContains(file.interactions, r)

\* C11 witness: an interaction was verified and written, its Message was
\* changed, the changed Message was verified and written, and the file now
\* holds the record of the first write and that of the second.
C11_Witness ==
    /\ last.called
    /\ last.err = NoError
    /\ \E r \in verifiedOK :
           /\ r # last.interaction
           /\ SeqContains(last.fileBefore.interactions, r)
           /\ ~SeqContains(last.fileBefore.interactions, last.interaction)
           /\ SeqContains(file.interactions, r)
           /\ SeqContains(file.interactions, last.interaction)

\* C12: on a successful Verify the interaction recorded in the contract
\* file carries the content in matcher form, its matching rule intact, and
\* the handler was handed the reified form: the plain example value.
C12_MatcherFormPersisted ==
    (last.called /\ last.err = NoError) =>
        /\ \E k \in 1..Len(file.interactions) :
               /\ file.interactions[k].description = last.interaction.description
               /\ file.interactions[k].content = last.interaction.content
        /\ last.handlerArg.val = last.interaction.content.example

\* C12 witness: an interaction whose content carries a matching rule was
\* verified successfully.
C12_Witness ==
    /\ last.called
    /\ last.err = NoError
    /\ last.interaction.content.rule = "type"
    /\ last.handlerArg.val = "num"
    /\ \E k \in 1..Len(file.interactions) :
           file.interactions[k].content.rule = "type"

\* Position of the first `step` in a call's trace, 0 if it is not there.
StepAt(trace, step) ==
    IF SeqContains(trace, step)
    THEN CHOOSE k \in 1..Len(trace) :
             trace[k] = step /\ \A j \in 1..(k - 1) : trace[j] # step
    ELSE 0

\* C16: in every Verify call the handler is invoked at most once and only
\* after reification and any requested narrowing succeeded, the write is
\* attempted at most once and only after the handler returned nil, and a
\* handler error and a persistence error never occur in the same call.
C16_StepOrder ==
    last.called =>
        /\ Count(last.trace, "handler") <= 1
        /\ Count(last.trace, "write") <= 1
        /\ StepAt(last.trace, "reify") = 1
        /\ SeqContains(last.trace, "handler") =>
               /\ last.interaction.content.rule # "unknown"
               /\ last.TypeBefore.kind # "nil" =>
                      /\ StepAt(last.trace, "narrow") = 2
                      /\ StepAt(last.trace, "handler") = 3
               /\ last.TypeBefore.kind = "nil" => StepAt(last.trace, "handler") = 2
               /\ last.rawErr.kind \notin {"reify", "narrow"}
        /\ SeqContains(last.trace, "write") =>
               /\ StepAt(last.trace, "write") = StepAt(last.trace, "handler") + 1
               /\ StepAt(last.trace, "handler") > 0
               /\ last.handlerResult = "ok"
        /\ (last.handlerResult # "none") <=> SeqContains(last.trace, "handler")
        /\ (last.writeResult # "none") <=> SeqContains(last.trace, "write")
        /\ ~(last.handlerResult = "error" /\ last.writeResult = "error")

\* C16 witness: a call went through reification, narrowing, the handler and
\* a write that failed.
C16_Witness ==
    /\ last.called
    /\ last.trace = <<"reify", "narrow", "handler", "write">>
    /\ last.rawErr = ErrPersist

\* C17: Pact.Verify returns exactly the error of the verification steps and
\* marks the test failed (t.Errorf) if and only if that error is not nil.
C17_NoErrorSwallowed ==
    last.called =>
        /\ last.err = last.rawErr
        /\ last.tErrorf <=> (last.rawErr # NoError)

\* C17 witness: the steps ended with an error, which Verify returned after
\* marking the test failed.
C17_Witness ==
    /\ last.called
    /\ last.rawErr = ErrPersist
    /\ last.err = ErrPersist
    /\ last.tErrorf

\* C19: when the reified message cannot be parsed as an asynchronous
\* message, Verify returns an error, the handler is not invoked and the
\* contract file is not written.
C19_UnparsableReification ==
    (last.called /\ ~ReifyMessage(messages[last.msg]).valid) =>
        /\ last.err = ErrUnexpectedResponse
        /\ last.handlerResult = "none"
        /\ last.writeResult = "none"
        /\ file = last.fileBefore

\* C19 witness: reification gave no usable message in a call whose write
\* would have changed an existing file.
C19_Witness ==
    /\ last.called
    /\ ~ReifyMessage(messages[last.msg]).valid
    /\ last.trace = <<"reify">>
    /\ last.fileBefore.exists
    /\ WriteWouldChangeFile

\* The contracts a sequence of at most n complete writes can leave at the
\* path: no file, or the merge of a writer's interactions into such a one.
RECURSIVE ContractsAfter(_)
ContractsAfter(n) ==
    IF n = 0
    THEN {NoFile}
    ELSE LET S == ContractsAfter(n - 1)
         IN  S \cup { MergedFile(f, messages[p].pact, WriteOverwrite) :
                        f \in S, p \in Pacts }

\* C18: whatever point a write is interrupted at, the file at the path is
\* never a partly written one: it is absent or a complete contract, and while
\* a writer holds the lock it is the complete contract that writer read or
\* the complete contract that writer is putting in place.
C18_NoPartialFile ==
    /\ ~torn
    /\ file \in ContractsAfter(NumPacts)
    /\ \A p \in Pacts :
           /\ (lock = p /\ pc[p] \in {"store", "replace", "releaseFailed"}) =>
                  file = local[p]
           /\ (lock = p /\ pc[p] = "release") => file = NewContract(p)

\* C18 witness: a writer stopped with its new file partly written, and the
\* contract at the path is the complete one another writer put there.
C18_Witness ==
    \E p, q \in Pacts :
        /\ pc[p] = "crashed"
        /\ tmp[p].state = "partial"
        /\ Len(tmp[p].contract.interactions) < Len(NewContract(p).interactions)
        /\ pc[q] = "done"
        /\ file.exists
        /\ ~torn

====
